---- MODULE Spec2Model ----
(***************************************************************************)
(* Model of src/main.py: a Streamlit script that is executed top to bottom *)
(* on every rendering cycle.  One cycle = cached resource initialisation   *)
(* (lines 17-79), the upload branch with process_pdf (lines 82-105 and     *)
(* 152-164), load_index (lines 116-125, 166) and the query branch with     *)
(* search_and_answer_with_top_blocks and the rendering (lines 128-149 and  *)
(* 168-182).  Calls into pymongo, llama_index, tempfile and the embedding  *)
(* service are external: each either returns or raises, chosen             *)
(* nondeterministically.                                                   *)
(***************************************************************************)
EXTENDS Integers, Sequences, FiniteSets, TLC

\* ---------------------------------------------------------------- bounds
\* Largest number of records the collection holds in the model.
MaxRecords == 4
\* Largest number of temporary files on disk in the model.
MaxTempFiles == 2
\* Largest number of source nodes a query response carries in the model.
MaxNodes == 4

\* ------------------------------------------------------------ input data
None == "None"

\* Uploadable PDF files.
Docs == {"d1", "d2"}

\* len(documents) returned by SimpleDirectoryReader.load_data for a file.
NumDocuments(d) == IF d = "d1" THEN 1 ELSE 2

\* Number of nodes VectorStoreIndex.from_documents inserts for a file.
NumChunks(d) == IF d = "d1" THEN 1 ELSE 2

\* Values of the text input widget ("" is the empty input).
Queries == {"", "q"}

\* Characters str.strip() removes.
Whitespace == {" ", "\t", "\n", "\r"}

\* The literal searched for by the rendering code (line 172).
ErrorWord == <<"E", "r", "r", "o", "r">>

\* The literal returned by the except branch of the search (line 149).
SentinelAnswer ==
    <<"E", "r", "r", "o", "r", ":", " ", "U", "n", "a", "b", "l", "e", " ",
      "t", "o", " ", "p", "r", "o", "c", "e", "s", "s", " ", "t", "h", "e",
      " ", "q", "u", "e", "r", "y">>

\* Texts response.response may hold (strings as character sequences).
Answers ==
    { <<"P", "a", "r", "i", "s">>,
      <<"N", "o", " ", "E", "r", "r", "o", "r", "s">>,
      <<"e", "r", "r", "o", "r">>,
      <<>> }

\* Texts node.get_content() may return.
Blocks ==
    { <<" ", "a", " ", "b", "\n">>,
      <<"\t", " ">> }

\* A source node carries its text.
Nodes == [text : Blocks]

GetContent(node) == node.text

\* --------------------------------------------------------- pure helpers
Min(a, b) == IF a < b THEN a ELSE b

\* s[:n] of a Python list.
Take(s, n) == SubSeq(s, 1, Min(n, Len(s)))

\* Whether s starts with the characters of p.
RECURSIVE StartsWith(_, _)
StartsWith(s, p) ==
    IF p = <<>> THEN TRUE
    ELSE IF s = <<>> THEN FALSE
    ELSE Head(s) = Head(p) /\ StartsWith(Tail(s), Tail(p))

\* Python's `sub in s` on strings: a left-to-right substring scan.
RECURSIVE Contains(_, _)
Contains(sub, s) ==
    IF StartsWith(s, sub) THEN TRUE
    ELSE IF s = <<>> THEN FALSE
    ELSE Contains(sub, Tail(s))

RECURSIVE LStrip(_)
LStrip(s) ==
    IF s = <<>> THEN s
    ELSE IF Head(s) \in Whitespace THEN LStrip(Tail(s))
    ELSE s

RECURSIVE RStrip(_)
RStrip(s) ==
    IF s = <<>> THEN s
    ELSE IF s[Len(s)] \in Whitespace THEN RStrip(SubSeq(s, 1, Len(s) - 1))
    ELSE s

\* str.strip(): leading and trailing whitespace removed.
Strip(s) == RStrip(LStrip(s))

\* All sequences over S of length at most n.
SeqsUpTo(S, n) == UNION { [1..k -> S] : k \in 0..n }

\* --------------------------------------------------- initialize_mongodb
\* Lines 18-31: the URI check, the client and the "ismaster" probe.
\* probe is the outcome of client.admin.command: "ok" or the exception.
MissingUriNoRaise(uri, probe) ==
    IF probe = "ok"
    THEN [raised |-> "none", client |-> "client"]
    ELSE [raised |-> probe, client |-> None]

initialize_mongodb(uri, probe) ==
    IF ~uri
    THEN [raised |-> "ValueError", client |-> None]
    ELSE IF probe = "ok"
    THEN [raised |-> "none", client |-> "client"]
    ELSE [raised |-> probe, client |-> None]

\* Outcomes of the liveness probe (line 25).
ProbeOutcomes == {"ok", "ConnectionFailure"}

\* ------------------------------------ search_and_answer_with_top_blocks
\* What the query engine does for one query: the step that raises (or
\* "none"), the answer text, the source nodes, and the position of a node
\* whose get_content() raises (0: none does).  A raising node is paired with
\* one answer text only: the answer is not returned when the loop raises.
NoResponse == [fail |-> "unused", answer |-> <<>>, nodes |-> <<>>, bad |-> 0]

Responses(stored) ==
    { [fail |-> f, answer |-> <<>>, nodes |-> <<>>, bad |-> 0] :
        f \in {"as_query_engine", "query", "source_nodes"} }
    \cup
    { [fail |-> "none", answer |-> a, nodes |-> ns, bad |-> 0] :
        a \in Answers, ns \in SeqsUpTo(Nodes, Min(MaxNodes, stored)) }
    \cup
    UNION { { [fail |-> "none", answer |-> <<"P", "a", "r", "i", "s">>,
               nodes |-> ns, bad |-> b] : b \in 1..Len(ns) } :
            ns \in SeqsUpTo(Nodes, Min(MaxNodes, stored)) }

\* The slice bound of line 141.
TopK == 3

\* Line 141: top_nodes[:3].
TopNodesUnsliced(top_nodes) == top_nodes

TopNodes(top_nodes) == Take(top_nodes, TopK)

\* Lines 147-149: the except branch.
ExceptResultRaises == [raised |-> TRUE, answer |-> <<>>, top_blocks |-> <<>>]

ExceptResult ==
    [raised |-> FALSE, answer |-> SentinelAnswer, top_blocks |-> <<>>]

\* Lines 128-149.
search_and_answer_with_top_blocks(q, idx, r) ==
    IF idx = None \/ r.fail # "none"
    THEN ExceptResult
    ELSE LET sliced == TopNodes(r.nodes) IN
         IF r.bad \in 1..Len(sliced)
         THEN ExceptResult
         ELSE [raised |-> FALSE,
               answer |-> r.answer,
               top_blocks |-> [i \in 1..Len(sliced) |-> GetContent(sliced[i])]]

\* ------------------------------------------------------------ rendering
Elem(k, t, n) == [kind |-> k, text |-> t, n |-> n]

\* Lines 172-182.
RenderUnconditional(answer, top_blocks) ==
    <<Elem("answer", answer, 0)>> \o
    [i \in 1..Len(top_blocks) |-> Elem("block", top_blocks[i], i)]

Render(answer, top_blocks) ==
    IF Contains(ErrorWord, answer)
    THEN <<Elem("error", answer, 0)>>
    ELSE <<Elem("answer", answer, 0)>> \o
         (IF top_blocks # <<>>
          THEN <<Elem("sources_header", <<>>, 0)>> \o
               [i \in 1..Len(top_blocks) |->
                    Elem("block", Strip(top_blocks[i]), i)]
          ELSE <<Elem("no_sources", <<>>, 0)>>)

\* ---------------------------------------------------------------- state
VARIABLES
    uri_set,        \* MONGODB_URI is present in the environment
    client,         \* cached result of initialize_mongodb
    embed_model,    \* cached result of initialize_embed_model
    vector_store,   \* cached result of initialize_vector_store
    pc,             \* position of the script in the current cycle
    error,          \* the exception that aborted the current cycle, or "none"
    probe,          \* outcome of the liveness probe run in the current cycle
    ui,             \* elements rendered in the current cycle, in order
    uploaded_file,  \* value of the file uploader widget
    query,          \* value of the text input widget
    trigger,        \* what started the current cycle: start/upload/query/rerun
    records,        \* number of records in the collection
    temp_files,     \* number of temporary files on disk
    temp_file,      \* the current process_pdf run's file: none/exists/deleted
    stages,         \* stages the current process_pdf run has entered
    runs,           \* process_pdf calls made in the current cycle
    cycle_records,  \* records at the start of the current cycle
    ingested,       \* per file: process_pdf runs that returned normally
    added,          \* per file: records those runs added
    first_added,    \* per file: records the first such run added
    index,          \* result of load_index
    response,       \* what the query engine did in the current cycle
    result          \* what search_and_answer_with_top_blocks returned

vars ==
    <<uri_set, client, embed_model, vector_store, pc, error, probe, ui,
      uploaded_file, query, trigger, records, temp_files, temp_file, stages, runs,
      cycle_records, ingested, added, first_added, index, response, result>>

resources == <<client, embed_model, vector_store>>
widgets == <<uploaded_file, query, trigger>>
ingestion == <<records, temp_files, temp_file, stages, ingested, added,
               first_added>>
retrieval == <<index, response, result>>

NoResult == [raised |-> FALSE, answer |-> <<>>, top_blocks |-> <<>>]

Init ==
    /\ uri_set \in BOOLEAN
    /\ client = None
    /\ embed_model = None
    /\ vector_store = None
    /\ pc = "initialize_mongodb"
    /\ error = "none"
    /\ probe = "none"
    /\ ui = <<>>
    /\ uploaded_file = None
    /\ query = ""
    /\ trigger = "start"
    /\ records \in 0..MaxRecords
    /\ temp_files = 0
    /\ temp_file = "none"
    /\ stages = <<>>
    /\ runs = 0
    /\ cycle_records = records
    /\ ingested = [d \in Docs |-> 0]
    /\ added = [d \in Docs |-> 0]
    /\ first_added = [d \in Docs |-> 0]
    /\ index = None
    /\ response = NoResponse
    /\ result = NoResult

\* ------------------------------------------------------------- start-up
\* Line 34 (with lines 17-31 and 35-40).  st.cache_resource returns the
\* client of an earlier cycle without running the function again.
InitializeMongodb ==
    /\ pc = "initialize_mongodb"
    /\ IF client # None
       THEN /\ pc' = "initialize_embed_model"
            /\ UNCHANGED <<client, error, probe>>
       ELSE \E p \in ProbeOutcomes :
              LET r == initialize_mongodb(uri_set, p) IN
              /\ client' = r.client
              /\ probe' = IF r.raised = "ValueError" THEN "none" ELSE p
              /\ error' = r.raised
              /\ pc' = IF r.raised = "none"
                       THEN "initialize_embed_model"
                       ELSE "aborted"
    /\ UNCHANGED <<uri_set, embed_model, vector_store, ui, widgets, ingestion,
                   runs, cycle_records, retrieval>>

\* Lines 43-58.
InitializeEmbedModel ==
    /\ pc = "initialize_embed_model"
    /\ IF embed_model # None
       THEN /\ pc' = "initialize_vector_store"
            /\ UNCHANGED <<embed_model, error>>
       ELSE \/ /\ embed_model' = "model"
               /\ pc' = "initialize_vector_store"
               /\ error' = "none"
            \/ /\ embed_model' = None
               /\ pc' = "aborted"
               /\ error' = "EmbedModelError"
    /\ UNCHANGED <<uri_set, probe, client, vector_store, ui, widgets,
                   ingestion, runs, cycle_records, retrieval>>

\* Lines 61-79.
InitializeVectorStore ==
    /\ pc = "initialize_vector_store"
    /\ IF vector_store # None
       THEN /\ pc' = "ui_start"
            /\ UNCHANGED <<vector_store, error>>
       ELSE \/ /\ vector_store' = "vector_store"
               /\ pc' = "ui_start"
               /\ error' = "none"
            \/ /\ vector_store' = None
               /\ pc' = "aborted"
               /\ error' = "VectorStoreError"
    /\ UNCHANGED <<uri_set, probe, client, embed_model, ui, widgets,
                   ingestion, runs, cycle_records, retrieval>>

\* ---------------------------------------------------------- process_pdf
Last(s) == s[Len(s)]

\* Line 155: the upload branch is taken whenever a file is present.  ing is
\* the history of earlier ingestions, which the condition does not read.
ShouldIngestOnce(file, ing) == file # None /\ ing[file] = 0

ShouldIngest(file, ing) == file # None

\* Lines 84-96: the order of the steps of process_pdf.
StageAfterSkipsExtraction(stage) ==
    CASE stage = "Uploaded"  -> "Staged"
      [] stage = "Staged"    -> "Embedded"
      [] stage = "Extracted" -> "Embedded"
      [] stage = "Embedded"  -> "Persisted"

StageAfter(stage) ==
    CASE stage = "Uploaded"  -> "Staged"
      [] stage = "Staged"    -> "Extracted"
      [] stage = "Extracted" -> "Embedded"
      [] stage = "Embedded"  -> "Persisted"

\* Lines 93-95: from_documents inserts one record per node of the file,
\* whatever was ingested before (nothing is looked up or compared).
NodesInsertedDedup(file, ing) == IF ing[file] > 0 THEN 0 ELSE NumChunks(file)

NodesInserted(file, ing) == NumChunks(file)

\* Lines 163-164: the caller's except renders the error; the script goes on
\* with line 166.
AfterUploadErrorAbort == "aborted"

AfterUploadError == "load_index"

\* Lines 152-156: title, file uploader, and the call of process_pdf.
UiStart ==
    /\ pc = "ui_start"
    /\ ui' = <<Elem("title", <<>>, 0), Elem("file_uploader", <<>>, 0)>>
    /\ IF ShouldIngest(uploaded_file, ingested)
       THEN /\ pc' = "process_pdf"
            /\ stages' = <<"Uploaded">>
            /\ runs' = runs + 1
       ELSE /\ pc' = "load_index"
            /\ UNCHANGED <<stages, runs>>
    /\ UNCHANGED <<uri_set, probe, resources, error, widgets, records,
                   temp_files, temp_file, cycle_records, ingested, added,
                   first_added, retrieval>>

\* Lines 103-105 and 163-164: process_pdf logs and re-raises, the caller
\* renders the error.
ProcessPdfRaised ==
    /\ stages' = Append(stages, "Failed")
    /\ ui' = Append(ui, Elem("pdf_error", <<>>, 0))
    /\ pc' = AfterUploadError
    /\ error' = IF AfterUploadError = "aborted" THEN "Exception" ELSE error

InProcessPdf(stage) == pc = "process_pdf" /\ Last(stages) = stage

\* Lines 84-88: the temporary file (created with delete=False) is written.
\* It raises before the file exists, or after (the write), or succeeds.
StageFile ==
    /\ InProcessPdf("Uploaded")
    /\ \/ /\ temp_files < MaxTempFiles
          /\ temp_files' = temp_files + 1
          /\ temp_file' = "exists"
          /\ stages' = Append(stages, StageAfter("Uploaded"))
          /\ UNCHANGED <<pc, ui, error>>
       \/ /\ temp_files < MaxTempFiles
          /\ temp_files' = temp_files + 1
          /\ temp_file' = "exists"
          /\ ProcessPdfRaised
       \/ /\ UNCHANGED <<temp_files, temp_file>>
          /\ ProcessPdfRaised
    /\ UNCHANGED <<uri_set, probe, resources, widgets, records, runs,
                   cycle_records, ingested, added, first_added, retrieval>>

\* Lines 90-91: SimpleDirectoryReader.load_data.
LoadData ==
    /\ InProcessPdf("Staged")
    /\ \/ /\ stages' = Append(stages, StageAfter("Staged"))
          /\ UNCHANGED <<pc, ui, error>>
       \/ ProcessPdfRaised
    /\ UNCHANGED <<uri_set, probe, resources, widgets, records, temp_files,
                   temp_file, runs, cycle_records, ingested, added,
                   first_added, retrieval>>

\* Lines 93-95: VectorStoreIndex.from_documents chunks, embeds and inserts.
\* When it raises, some of the records may already be in the collection.
FromDocuments ==
    /\ InProcessPdf("Extracted")
    /\ LET n == NodesInserted(uploaded_file, ingested) IN
       \/ /\ records + n <= MaxRecords
          /\ records' = records + n
          /\ stages' = Append(stages, StageAfter("Extracted"))
          /\ UNCHANGED <<pc, ui, error>>
       \/ \E k \in 0..n :
             /\ records + k <= MaxRecords
             /\ records' = records + k
             /\ ProcessPdfRaised
    /\ UNCHANGED <<uri_set, probe, resources, widgets, temp_files, temp_file,
                   runs, cycle_records, ingested, added, first_added,
                   retrieval>>

\* Line 96: storage_context.persist().
Persist ==
    /\ InProcessPdf("Embedded")
    /\ \/ /\ stages' = Append(stages, StageAfter("Embedded"))
          /\ UNCHANGED <<pc, ui, error>>
       \/ ProcessPdfRaised
    /\ UNCHANGED <<uri_set, probe, resources, widgets, records, temp_files,
                   temp_file, runs, cycle_records, ingested, added,
                   first_added, retrieval>>

\* Lines 98-102 and 159-162: the temporary file is unlinked, the number of
\* documents returned and rendered; check_vector_store only prints.
ReturnFromProcessPdf ==
    /\ InProcessPdf("Persisted")
    /\ temp_files' = temp_files - 1
    /\ temp_file' = "deleted"
    /\ ui' = Append(ui, Elem("success", <<>>, NumDocuments(uploaded_file)))
    /\ ingested' = [ingested EXCEPT ![uploaded_file] = @ + 1]
    /\ added' = [added EXCEPT ![uploaded_file] = @ + (records - cycle_records)]
    /\ first_added' =
          IF ingested[uploaded_file] = 0
          THEN [first_added EXCEPT ![uploaded_file] = records - cycle_records]
          ELSE first_added
    /\ pc' = "load_index"
    /\ UNCHANGED <<uri_set, probe, resources, error, widgets, records, stages,
                   runs, cycle_records, retrieval>>

\* ------------------------------------------------- load_index and query
\* Lines 116-125: from_vector_store returns an index or raises; the except
\* branch returns None.  The store is not consulted by this code.
load_index(ok) == IF ok THEN "index" ELSE None

\* Line 169: `if query and index`.
ShouldSearchWithoutIndex(q, idx) == q # ""

ShouldSearch(q, idx) == q # "" /\ idx # None

\* Line 166.
LoadIndex ==
    /\ pc = "load_index"
    /\ \E ok \in BOOLEAN : index' = load_index(ok)
    /\ pc' = "query_input"
    /\ UNCHANGED <<uri_set, probe, resources, error, ui, widgets, ingestion,
                   runs, cycle_records, response, result>>

\* Lines 168-171: the text input, and the search when a query and an index
\* are present.
QueryInput ==
    /\ pc = "query_input"
    /\ ui' = Append(ui, Elem("text_input", <<>>, 0))
    /\ IF ShouldSearch(query, index)
       THEN \E r \in Responses(records) :
              LET res == search_and_answer_with_top_blocks(query, index, r) IN
              /\ response' = r
              /\ result' = res
              /\ pc' = IF res.raised THEN "aborted" ELSE "render"
              /\ error' = IF res.raised THEN "Exception" ELSE error
       ELSE /\ pc' = "done"
            /\ UNCHANGED <<response, result, error>>
    /\ UNCHANGED <<uri_set, probe, resources, widgets, ingestion, runs,
                   cycle_records, index>>

\* Lines 172-182.
RenderAnswer ==
    /\ pc = "render"
    /\ ui' = ui \o Render(result.answer, result.top_blocks)
    /\ pc' = "done"
    /\ UNCHANGED <<uri_set, probe, resources, error, widgets, ingestion, runs,
                   cycle_records, retrieval>>

\* ------------------------------------------------------------ next cycle
\* Streamlit runs the script again from line 1 when a widget changes or a
\* rerun is requested; widget values and cached resources are kept, the
\* script's variables and the rendered page are not.  After an aborted
\* cycle no widget was rendered, so none can have changed.
Rerun ==
    /\ pc \in {"done", "aborted"}
    /\ \/ /\ pc = "done"
          /\ \E f \in (Docs \cup {None}) \ {uploaded_file} :
                uploaded_file' = f
          /\ trigger' = "upload"
          /\ UNCHANGED query
       \/ /\ pc = "done"
          /\ \E q \in Queries \ {query} : query' = q
          /\ trigger' = "query"
          /\ UNCHANGED uploaded_file
       \/ /\ trigger' = "rerun"
          /\ UNCHANGED <<uploaded_file, query>>
    /\ pc' = "initialize_mongodb"
    /\ error' = "none"
    /\ probe' = "none"
    /\ ui' = <<>>
    /\ temp_file' = "none"
    /\ stages' = <<>>
    /\ runs' = 0
    /\ cycle_records' = records
    /\ index' = None
    /\ response' = NoResponse
    /\ result' = NoResult
    /\ UNCHANGED <<uri_set, resources, records, temp_files, ingested, added,
                   first_added>>

Next ==
    \/ InitializeMongodb
    \/ InitializeEmbedModel
    \/ InitializeVectorStore
    \/ UiStart
    \/ StageFile
    \/ LoadData
    \/ FromDocuments
    \/ Persist
    \/ ReturnFromProcessPdf
    \/ LoadIndex
    \/ QueryInput
    \/ RenderAnswer
    \/ Rerun

Spec == Init /\ [][Next]_vars

\* =============================================================== claims
\* Positions of the script after the upload branch (lines 155-164).
AfterProcessPdf == {"load_index", "query_input", "render", "done"}

Entered(stage) == \E i \in 1..Len(stages) : stages[i] = stage

\* A step of the search raised: building the engine, the query, reading the
\* source nodes, or the content of one of the nodes that are read.
StepFailed(r) ==
    \/ r.fail \in {"as_query_engine", "query", "source_nodes"}
    \/ r.bad >= 1 /\ r.bad <= 3

SearchCalled == response.fail # "unused"

\* What the cycle rendered after the text input.
ShownAfterQuery ==
    LET k == CHOOSE i \in 1..Len(ui) : ui[i].kind = "text_input"
    IN SubSeq(ui, k + 1, Len(ui))

\* C1: when process_pdf has exited and its run had staged the temporary
\* file, the file has been deleted (on the normal and on every failing exit).
TempFileReleasedOnExit ==
    (pc \in AfterProcessPdf /\ Entered("Staged")) => temp_file = "deleted"

\* C2: search_and_answer_with_top_blocks never raises, and when any of its
\* steps fails it returns exactly ("Error: Unable to process the query", []).
SearchNeverRaises ==
    SearchCalled =>
        /\ ~result.raised
        /\ pc # "aborted"
        /\ StepFailed(response) =>
              /\ result.answer = SentinelAnswer
              /\ result.top_blocks = <<>>

SearchFailedAtSecondNode ==
    /\ pc = "render"
    /\ response.fail = "none"
    /\ response.bad = 2
    /\ result.answer = SentinelAnswer

StartupFailsBeforeUi ==
    /\ ~uri_set =>
          /\ pc \in {"initialize_mongodb", "aborted"}
          /\ pc = "aborted" => error = "ValueError"
          /\ ui = <<>>
          /\ client = None /\ embed_model = None /\ vector_store = None
          /\ runs = 0 /\ stages = <<>> /\ index = None /\ ~SearchCalled
          /\ records = cycle_records
    /\ probe = "ConnectionFailure" =>
          /\ pc = "aborted"
          /\ error = "ConnectionFailure"
          /\ client = None
          /\ ui = <<>>

MissingUriAborted ==
    ~uri_set /\ pc = "aborted" /\ error = "ValueError" /\ trigger = "rerun"

\* C5: every successful ingestion of a file adds the same positive number of
\* records as its first one did, so k ingestions add k times that number;
\* within a cycle the record count never shrinks.
ReingestionAddsSameAmount ==
    /\ records >= cycle_records
    /\ \A d \in Docs :
          ingested[d] >= 1 =>
              /\ first_added[d] > 0
              /\ added[d] = ingested[d] * first_added[d]

SameFileIngestedTwice ==
    \E d \in Docs : ingested[d] = 2 /\ added[d] = 2 * first_added[d]

\* C6, as stated: a query answered with an empty collection finds no usable
\* index and gets the sentinel pair.
EmptyIndexYieldsSentinel ==
    (pc = "done" /\ query # "" /\ records = 0) =>
        /\ index = None
        /\ result.answer = SentinelAnswer
        /\ result.top_blocks = <<>>

\* C6, amended: when load_index returns None the search is not called and
\* nothing is rendered for the query; when an index is returned and a step
\* of the retrieval fails, the sentinel pair is returned and rendered as the
\* error.
NoIndexNoSearchElseSentinel ==
    (pc = "done" /\ query # "") =>
        /\ index = None =>
              /\ ~SearchCalled
              /\ result = NoResult
              /\ ShownAfterQuery = <<>>
        /\ (index # None /\ StepFailed(response)) =>
              /\ result.answer = SentinelAnswer
              /\ result.top_blocks = <<>>
              /\ ShownAfterQuery = <<Elem("error", SentinelAnswer, 0)>>

QueryWithoutIndexOnEmptyStore ==
    pc = "done" /\ query # "" /\ index = None /\ records = 0

\* C7: a successful search returns the response's answer text and the texts
\* of the first min(3, n) of its n source nodes, in the response's order.
TopBlocksAreFirstThree ==
    (SearchCalled /\ response.fail = "none" /\ ~StepFailed(response)) =>
        /\ result.answer = response.answer
        /\ Len(result.top_blocks) = Min(3, Len(response.nodes))
        /\ \A i \in 1..Len(result.top_blocks) :
              result.top_blocks[i] = response.nodes[i].text

FourNodesThreeBlocks ==
    /\ pc = "render"
    /\ response.fail = "none"
    /\ Len(response.nodes) = 4
    /\ response.nodes[1] # response.nodes[2]
    /\ Len(result.top_blocks) = 3

\* C8: a run of process_pdf enters Uploaded, Staged, Extracted, Embedded,
\* Persisted in this order, each once, possibly cut short by Failed; it has
\* ended in Persisted or Failed when the script goes on, it is not resumed
\* after Failed, and the record count is unchanged unless Extracted was
\* entered.
StageOrder == <<"Uploaded", "Staged", "Extracted", "Embedded", "Persisted">>

IngestsOncePerCycleWithFile ==
    /\ runs <= 1
    /\ pc = "process_pdf" => (index = None /\ ~SearchCalled)
    /\ pc \in AfterProcessPdf =>
          /\ uploaded_file = None => (runs = 0 /\ stages = <<>>)
          /\ uploaded_file # None =>
                /\ runs = 1
                /\ Last(stages) \in {"Persisted", "Failed"}
                /\ Last(stages) = "Persisted" =>
                      /\ records = cycle_records + NumChunks(uploaded_file)
                      /\ records > cycle_records

QueryCycleIngestsAgain ==
    /\ pc = "done"
    /\ trigger = "query"
    /\ uploaded_file # None
    /\ ingested[uploaded_file] >= 2
    /\ records > cycle_records

\* C10: an answer containing "Error" is rendered as the error alone, with
\* none of the returned blocks; any other answer is rendered followed by
\* each returned block with its surrounding whitespace removed, or by "No
\* sources found." when no block was returned.
HasErrorWord(a) ==
    \E i \in 1..Len(a) :
        i + 4 <= Len(a) /\ SubSeq(a, i, i + 4) = <<"E", "r", "r", "o", "r">>

IsTrimmedOf(t, b) ==
    \E i \in 1..(Len(b) + 1) : \E j \in 0..Len(b) :
        /\ t = SubSeq(b, i, j)
        /\ \A k \in 1..(i - 1) : b[k] \in Whitespace
        /\ \A k \in (j + 1)..Len(b) : b[k] \in Whitespace
        /\ t # <<>> => (t[1] \notin Whitespace /\ t[Len(t)] \notin Whitespace)

BlocksShownOnlyWithoutError ==
    (pc = "done" /\ SearchCalled) =>
        LET a == result.answer
            tb == result.top_blocks
            shown == ShownAfterQuery
        IN IF HasErrorWord(a)
           THEN shown = <<Elem("error", a, 0)>>
           ELSE /\ Len(shown) >= 2
                /\ shown[1] = Elem("answer", a, 0)
                /\ \A i \in 1..Len(shown) : shown[i].kind # "error"
                /\ IF tb = <<>>
                   THEN shown[2] = Elem("no_sources", <<>>, 0) /\ Len(shown) = 2
                   ELSE /\ Len(shown) = Len(tb) + 2
                        /\ shown[2].kind = "sources_header"
                        /\ \A i \in 1..Len(tb) :
                              /\ shown[i + 2].kind = "block"
                              /\ shown[i + 2].n = i
                              /\ IsTrimmedOf(shown[i + 2].text, tb[i])

GeneratedErrorAnswerHidesBlocks ==
    /\ pc = "done"
    /\ response.fail = "none"
    /\ result.answer = <<"N", "o", " ", "E", "r", "r", "o", "r", "s">>
    /\ Len(result.top_blocks) = 3
    /\ ShownAfterQuery = <<Elem("error", result.answer, 0)>>

====
